---- MODULE Spec2Model ----
(***************************************************************************)
(* Model of the connection and streaming substrate of infrastructure-agent *)
(* (app/backend/app/autogen_agent_v2.py and app/backend/app/main.py).      *)
(*                                                                         *)
(* Text is modelled by TLA+ strings.  Four characters of the source's      *)
(* literals cannot be written in a TLA+ string and have stand-ins of the   *)
(* same length: "~" for the ellipsis, ">" for the arrow, "!" for the       *)
(* cross mark and "'" for the backquote.                                   *)
(***************************************************************************)
EXTENDS Integers, Sequences, FiniteSets, TLC

VARIABLES
    pc,             \* position of stream_task / check_mcp_servers
    model_ok,       \* AZURE_OPENAI_ENDPOINT and an API key are set
    params_list,    \* create_mcp_server_params()
    i,              \* index of the for loop over params_list (0-based)
    step,           \* step of the connect of spec i
    tries,          \* list_tools attempts made for spec i
    last_err,       \* last_err of the retry loop
    hist,           \* per spec: what its provider did, and the sleeps made
    stack,          \* contexts entered on the AsyncExitStack, in order
    released,       \* handles whose context the stack has exited
    workbenches,    \* the list workbenches
    bench_indices,  \* the dict bench_indices
    agents,         \* actor name -> the workbench handles it was given
    teams,          \* MagenticOneGroupChat objects built so far
    out,            \* the items stream_task has yielded, in order
    nsig,           \* raw signals the team has produced in this call
    awaiting,       \* the team is suspended in the user proxy's input()
    chunk_buffer,   \* chunk_buffer of the transcript loop
    prev_was_chunk, \* prev_was_chunk of the transcript loop
    results,        \* the list results of check_mcp_servers
    sessions,       \* session registry: id -> inbound queue
    resp,           \* HTTP responses given by POST /input, in order
    rin,            \* renderer input under test
    rout,           \* renderer output under test
    servers,        \* the tool servers of the DynamicToolManager, by name
    manager,        \* the DynamicToolManager
    tlog,           \* the last operation on the manager and what it did
    runs            \* the /run requests being served, by connection

vars == <<pc, model_ok, params_list, i, step, tries, last_err, hist, stack,
          released, workbenches, bench_indices, agents, teams, out, nsig,
          awaiting, chunk_buffer, prev_was_chunk, results, sessions, resp,
          rin, rout, servers, manager, tlog, runs>>

connVars == <<i, step, tries, last_err, hist, stack, released>>
benchVars == <<workbenches, bench_indices, agents, teams>>
streamVars == <<out, nsig, awaiting, chunk_buffer, prev_was_chunk>>
extVars == <<servers, manager, tlog, runs>>
otherVars == <<results, sessions, resp, rin, rout, extVars>>

-----------------------------------------------------------------------------
(* Text helpers: Python's str operations used by the source.               *)

Char(s, k) == SubSeq(s, k, k)

\* sub in s
RECURSIVE ContainsFrom(_, _, _)
ContainsFrom(s, sub, k) ==
    IF k + Len(sub) - 1 > Len(s) THEN FALSE
    ELSE IF SubSeq(s, k, k + Len(sub) - 1) = sub THEN TRUE
    ELSE ContainsFrom(s, sub, k + 1)

Contains(s, sub) == ContainsFrom(s, sub, 1)

\* s.endswith(suffix)
EndsWith(s, suffix) ==
    /\ Len(suffix) <= Len(s)
    /\ SubSeq(s, Len(s) - Len(suffix) + 1, Len(s)) = suffix

LowerChar(c) ==
    CASE c = "A" -> "a" [] c = "B" -> "b" [] c = "C" -> "c" [] c = "D" -> "d"
      [] c = "E" -> "e" [] c = "F" -> "f" [] c = "G" -> "g" [] c = "H" -> "h"
      [] c = "I" -> "i" [] c = "J" -> "j" [] c = "K" -> "k" [] c = "L" -> "l"
      [] c = "M" -> "m" [] c = "N" -> "n" [] c = "O" -> "o" [] c = "P" -> "p"
      [] c = "Q" -> "q" [] c = "R" -> "r" [] c = "S" -> "s" [] c = "T" -> "t"
      [] c = "U" -> "u" [] c = "V" -> "v" [] c = "W" -> "w" [] c = "X" -> "x"
      [] c = "Y" -> "y" [] c = "Z" -> "z" [] OTHER -> c

\* s.lower()
RECURSIVE LowerFrom(_, _)
LowerFrom(s, k) ==
    IF k > Len(s) THEN "" ELSE LowerChar(Char(s, k)) \o LowerFrom(s, k + 1)

Lower(s) == LowerFrom(s, 1)

\* sep.join(parts)
RECURSIVE Join(_, _)
Join(sep, parts) ==
    IF parts = <<>> THEN ""
    ELSE IF Len(parts) = 1 THEN parts[1]
    ELSE parts[1] \o sep \o Join(sep, Tail(parts))

IsSpace(c) == c \in {" ", "\n", "\t"}

RECURSIVE LStripFrom(_, _)
LStripFrom(s, k) ==
    IF k <= Len(s) /\ IsSpace(Char(s, k)) THEN LStripFrom(s, k + 1) ELSE k

RECURSIVE RStripFrom(_, _)
RStripFrom(s, k) ==
    IF k >= 1 /\ IsSpace(Char(s, k)) THEN RStripFrom(s, k - 1) ELSE k

\* s.strip()
Strip(s) == SubSeq(s, LStripFrom(s, 1), RStripFrom(s, Len(s)))

\* first + "\n" + "\n".join("  " + line for line in rest): every line after
\* the first is indented by two spaces
RECURSIVE IndentRestFrom(_, _)
IndentRestFrom(s, k) ==
    IF k > Len(s) THEN ""
    ELSE (IF Char(s, k) = "\n" THEN "\n  " ELSE Char(s, k))
             \o IndentRestFrom(s, k + 1)

IndentRest(s) == IndentRestFrom(s, 1)

-----------------------------------------------------------------------------
(* Configuration: create_mcp_server_params.                                *)

\* one StdioServerParams per enabled provider; only command and args matter
AzureParams == [command |-> "npx",
                args |-> <<"-y", "@azure/mcp@latest", "server", "start">>]
AdoParams(org) == [command |-> "npx",
                   args |-> <<"-y", "@azure-devops/mcp", org>>]
GithubOfficialParams == [command |-> "server-github", args |-> <<>>]
GithubCustomParams ==
    [command |-> "node",
     args |-> <<"/usr/local/lib/node_modules/github-mcp-custom/bin/index.js",
                "stdio">>]
PlaywrightParams == [command |-> "npx",
                     args |-> <<"@playwright/mcp@latest", "--headless">>]

\* env: the flags and credentials create_mcp_server_params reads
create_mcp_server_params(env) ==
    IF ~env.mcp THEN <<>>
    ELSE (IF env.azure THEN <<AzureParams>> ELSE <<>>)
         \o (IF env.ado THEN <<AdoParams(env.ado_org)>> ELSE <<>>)
         \o (IF env.github
                THEN (IF env.official THEN <<GithubOfficialParams>>
                                      ELSE <<GithubCustomParams>>)
                ELSE <<>>)
         \o (IF env.playwright THEN <<PlaywrightParams>> ELSE <<>>)

\* the environments of the bounded check
Env(mcp, azure, ado, github, official, playwright) ==
    [mcp |-> mcp, azure |-> azure, ado |-> ado, ado_org |-> "Contoso",
     github |-> github, official |-> official, playwright |-> playwright]

Envs ==
    { Env(FALSE, TRUE, TRUE, TRUE, TRUE, TRUE),
      Env(TRUE, TRUE, FALSE, TRUE, FALSE, FALSE),
      Env(TRUE, TRUE, TRUE, TRUE, TRUE, FALSE),
      Env(TRUE, FALSE, FALSE, TRUE, FALSE, TRUE) }

\* " ".join(str(a) for a in args).lower()
ArgsStr(params) == Lower(Join(" ", params.args))

\* any("@azure/mcp" in str(a).lower() for a in args)
IsAzureArgs(params) ==
    \E k \in 1..Len(params.args) : Contains(Lower(params.args[k]), "@azure/mcp")

\* the kind tag the if/elif chain of stream_task derives from the arguments;
\* "" when no branch matches
KindOf(params) ==
    LET a == ArgsStr(params) IN
    IF Contains(a, "@azure/mcp") THEN "azure"
    ELSE IF Contains(a, "@azure-devops/mcp") \/ Contains(a, "azure-devops")
        THEN "ado"
    ELSE IF Contains(a, "github-mcp") \/ Contains(a, "server-github")
        THEN "github"
    ELSE IF Contains(a, "@playwright/mcp") THEN "playwright"
    ELSE ""

KindLabel(kind) ==
    CASE kind = "azure" -> "Azure MCP connected"
      [] kind = "ado" -> "Azure DevOps MCP connected"
      [] kind = "github" -> "GitHub MCP connected"
      [] kind = "playwright" -> "Playwright MCP connected"

-----------------------------------------------------------------------------
(* Provider behaviour: what one step of a tool provider does.              *)

\* a step either raises after some time or completes after dur seconds
Durations == {5, 15, 30, 50}
StepBehaviours ==
    [err : {FALSE}, dur : Durations] \cup {[err |-> TRUE, dur |-> 0]}

\* asyncio.wait_for(step, timeout): "ok", "timeout" or "error"
WaitFor(b, timeout) ==
    IF b.err THEN "error" ELSE IF b.dur > timeout THEN "timeout" ELSE "ok"

\* what the provider of one spec did: the outcomes of its spawn and its
\* initialization, the list_tools attempts that failed, whether one
\* succeeded, how the last failed attempt failed, and the sleeps made between
\* and after the attempts
NewHist(spawn) ==
    [spawn |-> spawn, init |-> "-", fails |-> 0, listed |-> FALSE,
     last |-> "-", sleeps |-> 0]

\* timeouts and retry budgets of stream_task
StartupTimeout == 10
InitTimeout == 8
\* variant: one attempt more than the budget
AttemptsOneMore(is_azure) == IF is_azure THEN 7 ELSE 5
Attempts(is_azure) == IF is_azure THEN 6 ELSE 4
PerTryTimeout(is_azure) == IF is_azure THEN 45 ELSE 20

-----------------------------------------------------------------------------
(* Values: JSON values and Python attribute values are tagged records.     *)

Null == [t |-> "null"]
Str(v) == [t |-> "str", v |-> v]
Num(v) == [t |-> "num", v |-> v]
Arr(v) == [t |-> "arr", v |-> v]

\* attribute values of a raw signal
NoneVal == [t |-> "none"]
ListVal(v) == [t |-> "list", v |-> v]
IntVal(v) == [t |-> "int", v |-> v]

\* a yielded item: one NDJSON line (json.dumps(obj) + "\n", kept as the
\* object it encodes) or a piece of transcript text
JsonLine(obj) == [json |-> obj]
TextItem(s) == [text |-> s]
IsJsonLine(item) == "json" \in DOMAIN item

StatusLine(text) == JsonLine([type |-> "status", text |-> text])
ErrorLine(text) == JsonLine([type |-> "error", text |-> text])

\* last_err: None or an exception with its str()
NoErr == [set |-> FALSE, msg |-> ""]
Err(msg) == [set |-> TRUE, msg |-> msg]

\* str(e) of the exceptions a provider step raises; asyncio.TimeoutError has
\* an empty message
ErrText(r, what) == IF r = "timeout" THEN "" ELSE what \o " error"

-----------------------------------------------------------------------------
(* Bounds of the check.                                                    *)

\* raw signals the team produces in one call of stream_task, both runs
\* together, when no provider is configured
MaxSignals == 3
\* the same with providers configured
MaxSignalsMcp == 0

SignalBudget == IF params_list = <<>> THEN MaxSignals ELSE MaxSignalsMcp

-----------------------------------------------------------------------------
(* stream_task: entry and the connect loop (lines 141-251).                *)

\* lines 144-152 and 199-204
Start ==
    /\ pc = "start"
    /\ IF model_ok
          THEN pc' = "connect" /\ out' = out
          ELSE /\ pc' = "done"
               /\ out' = Append(out, ErrorLine(
                      "Missing AZURE_OPENAI_ENDPOINT or AZURE_OPENAI_API_KEY"))
    /\ UNCHANGED <<model_ok, params_list, connVars, benchVars, nsig, awaiting,
                   chunk_buffer, prev_was_chunk, otherVars>>

\* variant: the failed handle joins the active set
ConnectFailedKeepsHandle(reason) ==
    /\ out' = Append(out, StatusLine("Failed to connect MCP server: " \o reason))
    /\ i' = i + 1
    /\ step' = "spawn"
    /\ tries' = 0
    /\ last_err' = NoErr
    /\ workbenches' = Append(workbenches, i)
    /\ UNCHANGED bench_indices

\* the except clause of line 250: one failed status, then the next spec
ConnectFailed(reason) ==
    /\ out' = Append(out, StatusLine("Failed to connect MCP server: " \o reason))
    /\ i' = i + 1
    /\ step' = "spawn"
    /\ tries' = 0
    /\ last_err' = NoErr
    /\ UNCHANGED <<workbenches, bench_indices>>

\* lines 236-249: the handle joins the active set and is labelled
ConnectReady ==
    LET kind == KindOf(params_list[i + 1]) IN
    /\ workbenches' = Append(workbenches, i)
    /\ IF kind = ""
          THEN UNCHANGED <<bench_indices, out>>
          ELSE /\ bench_indices' =
                     [k \in DOMAIN bench_indices \cup {kind} |->
                         IF k = kind THEN i ELSE bench_indices[k]]
               /\ out' = Append(out, StatusLine(KindLabel(kind)))
    /\ i' = i + 1
    /\ step' = "spawn"
    /\ tries' = 0
    /\ last_err' = NoErr

InConnect(s) == pc = "connect" /\ i < Len(params_list) /\ step = s

\* lines 208-212
Spawn ==
    /\ InConnect("spawn")
    /\ \E b \in StepBehaviours :
         LET r == WaitFor(b, StartupTimeout) IN
         /\ hist' = Append(hist, NewHist(r))
         /\ IF r = "ok"
               THEN /\ stack' = Append(stack, i)
                    /\ step' = "init"
                    /\ UNCHANGED <<i, tries, last_err, out, workbenches,
                                   bench_indices>>
               ELSE /\ ConnectFailed(IF r = "timeout"
                                        THEN "Workbench startup timed out"
                                        ELSE ErrText(r, "spawn"))
                    /\ stack' = stack
    /\ UNCHANGED <<pc, model_ok, params_list, released, agents, teams, nsig,
                   awaiting, chunk_buffer, prev_was_chunk, otherVars>>

\* lines 214-218
Initialize ==
    /\ InConnect("init")
    /\ \E b \in StepBehaviours :
         LET r == WaitFor(b, InitTimeout) IN
         /\ hist' = [hist EXCEPT ![i + 1].init = r]
         /\ IF r = "ok"
               THEN /\ step' = "list"
                    /\ UNCHANGED <<i, tries, last_err, out, workbenches,
                                   bench_indices>>
               ELSE ConnectFailed(IF r = "timeout"
                                     THEN "Workbench initialization timed out"
                                     ELSE ErrText(r, "initialize"))
    /\ UNCHANGED <<pc, model_ok, params_list, stack, released, agents, teams,
                   nsig, awaiting, chunk_buffer, prev_was_chunk, otherVars>>

\* lines 225-231: one attempt of the retry loop
ListTools ==
    /\ InConnect("list")
    /\ \E b \in StepBehaviours :
         LET az == IsAzureArgs(params_list[i + 1])
             r == WaitFor(b, PerTryTimeout(az))
         IN
         IF r = "ok"
            THEN /\ hist' = [hist EXCEPT ![i + 1].listed = TRUE]
                 /\ ConnectReady
            ELSE /\ hist' = [hist EXCEPT ![i + 1].fails = @ + 1,
                                         ![i + 1].last = r]
                 /\ last_err' = Err(ErrText(r, "list_tools"))
                 /\ tries' = tries + 1
                 /\ step' = "sleep"
                 /\ UNCHANGED <<i, out, workbenches, bench_indices>>
    /\ UNCHANGED <<pc, model_ok, params_list, stack, released, agents, teams,
                   nsig, awaiting, chunk_buffer, prev_was_chunk, otherVars>>

\* lines 232-234: the sleep after a failed attempt, then the next attempt or,
\* with the attempts used up, the failure
Backoff ==
    /\ InConnect("sleep")
    /\ hist' = [hist EXCEPT ![i + 1].sleeps = @ + 1]
    /\ IF tries < Attempts(IsAzureArgs(params_list[i + 1]))
          THEN /\ step' = "list"
               /\ UNCHANGED <<i, tries, last_err, out, workbenches,
                              bench_indices>>
          ELSE ConnectFailed("list_tools failed after retries: " \o last_err.msg)
    /\ UNCHANGED <<pc, model_ok, params_list, stack, released, agents, teams,
                   nsig, awaiting, chunk_buffer, prev_was_chunk, otherVars>>

-----------------------------------------------------------------------------
(* stream_task: the participants and the team (lines 253-425, 480-584).     *)

\* workbenches[bench_indices[kind]]: raises IndexError past the end
LookupOk(kind) == bench_indices[kind] < Len(workbenches)
Lookup(kind) == workbenches[bench_indices[kind] + 1]
Has(kind) == kind \in DOMAIN bench_indices

Agent(name, benches) == [name |-> name, workbench |-> benches]

\* every subscript the first block evaluates is in range
BuildOk == \A kind \in DOMAIN bench_indices : LookupOk(kind)

\* lines 321-419, also 480-578: the provider-bound actors and the user proxy
ProviderAgents ==
    (IF Has("ado") THEN <<Agent("AdoAgent", <<Lookup("ado")>>)>> ELSE <<>>)
    \o (IF Has("github")
           THEN <<Agent("GitHubAgent", <<Lookup("github")>>)>> ELSE <<>>)
    \o (IF Has("playwright") /\ Has("github")
           THEN <<Agent("InfraCoderAgent",
                        <<Lookup("github"), Lookup("playwright")>>)>>
           ELSE <<>>)
    \o (IF Has("playwright")
           THEN <<Agent("WebAgent", <<Lookup("playwright")>>)>> ELSE <<>>)
    \o <<Agent("HumanUser", <<>>)>>

\* lines 267-319
FirstAgents ==
    <<Agent("MagenticOneOrchestrator", <<>>),
      Agent("AzureAgent", IF Has("azure") THEN <<Lookup("azure")>> ELSE <<>>)>>

\* lines 253-425: the loop is over; build the actors and the team, or raise
\* IndexError out of the async with block
BuildTeam ==
    /\ pc = "connect"
    /\ i = Len(params_list)
    /\ IF BuildOk
          THEN /\ agents' = FirstAgents \o ProviderAgents
               /\ teams' = teams + 1
               /\ pc' = "announce"
          ELSE /\ pc' = "exit_raise"
               /\ UNCHANGED <<agents, teams>>
    /\ UNCHANGED <<model_ok, params_list, connVars, workbenches, bench_indices,
                   streamVars, otherVars>>

\* lines 427-429
Announce ==
    /\ pc = "announce"
    /\ out' = out \o <<JsonLine([type |-> "request", role |-> "user",
                                 text |-> "ping"]),
                       StatusLine("Starting...")>>
    /\ pc' = "run1"
    /\ UNCHANGED <<model_ok, params_list, connVars, benchVars, nsig, awaiting,
                   chunk_buffer, prev_was_chunk, otherVars>>

-----------------------------------------------------------------------------
(* json.loads and json.dumps(indent=2) on the texts of the check: numbers   *)
(* written with the digits 1 and 2, arrays, blanks.  Any other character    *)
(* makes the text invalid JSON.                                             *)

IsDigit(c) == c \in {"1", "2"}
DigitVal(c) == IF c = "1" THEN 1 ELSE 2

ParseFail == [ok |-> FALSE]
ParseOk(val, next) == [ok |-> TRUE, val |-> val, next |-> next]

RECURSIVE SkipWs(_, _)
SkipWs(s, k) ==
    IF k <= Len(s) /\ IsSpace(Char(s, k)) THEN SkipWs(s, k + 1) ELSE k

RECURSIVE ParseNumber(_, _, _)
ParseNumber(s, k, acc) ==
    IF k <= Len(s) /\ IsDigit(Char(s, k))
       THEN ParseNumber(s, k + 1, 10 * acc + DigitVal(Char(s, k)))
       ELSE ParseOk(Num(acc), k)

RECURSIVE ParseValue(_, _)
RECURSIVE ParseElems(_, _, _)
ParseValue(s, k) ==
    LET j == SkipWs(s, k) IN
    IF j > Len(s) THEN ParseFail
    ELSE IF IsDigit(Char(s, j)) THEN ParseNumber(s, j, 0)
    ELSE IF Char(s, j) = "["
        THEN LET j2 == SkipWs(s, j + 1) IN
             IF j2 <= Len(s) /\ Char(s, j2) = "]"
                THEN ParseOk(Arr(<<>>), j2 + 1)
                ELSE ParseElems(s, j2, <<>>)
    ELSE ParseFail

ParseElems(s, k, acc) ==
    LET r == ParseValue(s, k) IN
    IF ~r.ok THEN ParseFail
    ELSE LET j == SkipWs(s, r.next) IN
         IF j > Len(s) THEN ParseFail
         ELSE IF Char(s, j) = "," THEN ParseElems(s, j + 1, Append(acc, r.val))
         ELSE IF Char(s, j) = "]" THEN ParseOk(Arr(Append(acc, r.val)), j + 1)
         ELSE ParseFail

\* json.loads(s): [ok |-> TRUE, val |-> v], or [ok |-> FALSE] when it raises
json_loads(s) ==
    LET r == ParseValue(s, 1) IN
    IF r.ok /\ SkipWs(s, r.next) > Len(s)
       THEN [ok |-> TRUE, val |-> r.val]
       ELSE ParseFail

RECURSIVE Spaces(_)
Spaces(n) == IF n = 0 THEN "" ELSE " " \o Spaces(n - 1)

\* json.dumps(v, indent=2) at nesting level lvl
RECURSIVE DumpsAt(_, _)
RECURSIVE DumpElems(_, _, _)
DumpsAt(v, lvl) ==
    IF v.t = "num" THEN ToString(v.v)
    ELSE IF v.v = <<>> THEN "[]"
    ELSE "[\n" \o DumpElems(v.v, 1, lvl + 1) \o "\n" \o Spaces(2 * lvl) \o "]"

DumpElems(vs, k, lvl) ==
    Spaces(2 * lvl) \o DumpsAt(vs[k], lvl)
        \o (IF k = Len(vs) THEN "" ELSE ",\n" \o DumpElems(vs, k + 1, lvl))

json_dumps_indent2(v) == DumpsAt(v, 0)

-----------------------------------------------------------------------------
(* Raw progress signals of team.run_stream and their attributes.           *)

\* an update: its type attribute ("" when it has none), its class name, its
\* source ("" for None) and its content
Sig(type, cls, source, content) ==
    [type |-> type, cls |-> cls, source |-> source, content |-> content]

\* an entry of a call-request or call-result content list
Entry(name, arguments, content) ==
    [name |-> name, arguments |-> arguments, content |-> content]
Call(name, arguments) == Entry(Str(name), Str(arguments), NoneVal)
Result(name, content) == Entry(Str(name), NoneVal, Str(content))

\* str(update)
Repr(sig) == "<" \o sig.cls \o ">"

\* str(x) of an attribute value
PyStr(x) ==
    CASE x.t = "str" -> x.v
      [] x.t = "int" -> ToString(x.v)
      [] x.t = "none" -> "None"
      [] x.t = "list" -> "[" \o Join(", ", [k \in 1..Len(x.v) |-> "<obj>"]) \o "]"

\* getattr(update, "type", None) or type(update).__name__
MsgType(sig) == IF sig.type # "" THEN sig.type ELSE sig.cls
\* getattr(update, "source", None) or "system"
Src(sig) == IF sig.source # "" THEN sig.source ELSE "system"
\* content, str(update) standing in for None
Content(sig) == IF sig.content.t = "none" THEN Str(Repr(sig)) ELSE sig.content

\* variant: only the suffix marks a chunk
IsChunkBySuffix(msg_type) == EndsWith(msg_type, "ChunkEvent")
\* ("Chunk" in msg_type) or msg_type.endswith("ChunkEvent")
IsChunk(msg_type) == Contains(msg_type, "Chunk") \/ EndsWith(msg_type, "ChunkEvent")

\* getattr(update, "content", []) or []: what the for loop iterates
Falsy(x) ==
    \/ x.t = "none"
    \/ x.t = "str" /\ x.v = ""
    \/ x.t = "list" /\ x.v = <<>>
    \/ x.t = "int" /\ x.v = 0
Iterable(x) == Falsy(x) \/ x.t \in {"list", "str"}
\* the entries iterated; a character of a str has none of the attributes
Entries(x) ==
    IF Falsy(x) THEN <<>>
    ELSE IF x.t = "list" THEN x.v
    ELSE [k \in 1..Len(x.v) |-> Entry(NoneVal, NoneVal, NoneVal)]

NotIterable == "'int' object is not iterable"

\* a Python attribute value as a JSON value
ToJson(x) == IF x.t = "none" THEN Null ELSE Str(x.v)

-----------------------------------------------------------------------------
(* The structured rendering of one signal (lines 433-476).                  *)

\* lines 462-470: out_str, and the parsed value or the raw text
OutStr(r) == IF r.content.t = "none" THEN "" ELSE PyStr(r.content)
\* variant: the raw text is cut to the budget of the transcript
ParsedOrRawCut(out_str) ==
    LET p == json_loads(out_str) IN
    IF p.ok THEN p.val
    ELSE IF Len(out_str) > 1500 THEN Str(SubSeq(out_str, 1, 1500))
    ELSE Str(out_str)
ParsedOrRaw(out_str) ==
    LET p == json_loads(out_str) IN IF p.ok THEN p.val ELSE Str(out_str)

StructuredResult(r) == [name |-> ToJson(r.name), output |-> ParsedOrRaw(OutStr(r))]
StructuredCall(c) == [name |-> ToJson(c.name), arguments |-> ToJson(c.arguments)]

\* the object of the one line yielded for the signal
Ndjson(sig) ==
    LET msg_type == MsgType(sig)
        src == Src(sig)
        content == Content(sig)
    IN
    IF IsChunk(msg_type)
       THEN [type |-> "chunk", agent |-> src, text |-> PyStr(content)]
    ELSE IF Contains(msg_type, "TextMessage")
       THEN [type |-> "message", agent |-> src, text |-> PyStr(content)]
    ELSE IF Contains(msg_type, "ToolCallRequestEvent")
       THEN IF Iterable(sig.content)
               THEN [type |-> "tool_call", agent |-> src,
                     calls |-> [k \in 1..Len(Entries(sig.content)) |->
                                   StructuredCall(Entries(sig.content)[k])]]
               ELSE [type |-> "event", agent |-> "system", name |-> "error",
                     text |-> NotIterable]
    ELSE IF Contains(msg_type, "ToolCallExecutionEvent")
       THEN IF Iterable(sig.content)
               THEN [type |-> "tool_result", agent |-> src,
                     results |-> [k \in 1..Len(Entries(sig.content)) |->
                                     StructuredResult(Entries(sig.content)[k])]]
               ELSE [type |-> "event", agent |-> "system", name |-> "error",
                     text |-> NotIterable]
    ELSE [type |-> "event", agent |-> src, name |-> msg_type,
          text |-> PyStr(content)]

-----------------------------------------------------------------------------
(* The transcript rendering of one signal (lines 594-664).                  *)

ArgsBudget == 200
OutBudget == 1500
Ellipsis == "~"
TruncatedMark == "\n~ (truncated)"

\* lines 632-637
NameOrUnknown(e) ==
    IF e.name.t = "none" \/ e.name.v = "" THEN "(unknown)" ELSE e.name.v
ArgsStrOf(c) == IF c.arguments.t = "none" THEN "{}" ELSE PyStr(c.arguments)
\* variant: a text of exactly the budget is cut too
TruncateArgsEarly(args_str) ==
    IF Len(args_str) >= ArgsBudget
       THEN SubSeq(args_str, 1, ArgsBudget) \o Ellipsis
       ELSE args_str
TruncateArgs(args_str) ==
    IF Len(args_str) > ArgsBudget
       THEN SubSeq(args_str, 1, ArgsBudget) \o Ellipsis
       ELSE args_str
CallLine(src, c) ==
    "- " \o src \o " > tool: " \o NameOrUnknown(c) \o " '"
         \o TruncateArgs(ArgsStrOf(c)) \o "'"

\* lines 645-656
PrettyJson(out_str) ==
    LET p == json_loads(out_str) IN
    IF p.ok THEN json_dumps_indent2(p.val) ELSE out_str
TruncateOut(pretty_json) ==
    IF pretty_json # "" /\ Len(pretty_json) > OutBudget
       THEN SubSeq(pretty_json, 1, OutBudget) \o TruncatedMark
       ELSE pretty_json
ResultBlock(src, r) ==
    "- " \o src \o " > result: " \o NameOrUnknown(r) \o "\n'''json\n"
         \o TruncateOut(PrettyJson(OutStr(r))) \o "\n'''"

\* lines 616-662: the block of a non-chunk signal, [ok |-> FALSE] when the
\* rendering raises
Pretty(sig) ==
    LET msg_type == MsgType(sig)
        src == Src(sig)
        content == PyStr(Content(sig))
        fallback == "- " \o src \o ": " \o content \o "\n"
        es == Entries(sig.content)
    IN
    IF Contains(msg_type, "TextMessage")
       THEN [ok |-> TRUE,
             text |-> "- " \o src \o ": " \o IndentRest(Strip(content)) \o "\n"]
    ELSE IF Contains(msg_type, "ToolCallRequestEvent")
       THEN IF ~Iterable(sig.content) THEN [ok |-> FALSE]
            ELSE [ok |-> TRUE,
                  text |-> IF es = <<>> THEN fallback
                           ELSE Join("\n", [k \in 1..Len(es) |-> CallLine(src, es[k])])
                                    \o "\n"]
    ELSE IF Contains(msg_type, "ToolCallExecutionEvent")
       THEN IF ~Iterable(sig.content) THEN [ok |-> FALSE]
            ELSE [ok |-> TRUE,
                  text |-> IF es = <<>> THEN fallback
                           ELSE Join("\n", [k \in 1..Len(es) |-> ResultBlock(src, es[k])])
                                    \o "\n"]
    ELSE [ok |-> TRUE, text |-> fallback]

\* variant: a signal whose rendering raises yields nothing
TranscriptDropsRaised(sig, buf, prev) ==
    IF IsChunk(MsgType(sig))
       THEN [items |-> <<>>, buf |-> buf \o PyStr(Content(sig)), prev |-> TRUE]
       ELSE LET flush == prev /\ buf # ""
                p == Pretty(sig)
            IN [items |-> (IF flush THEN <<TextItem(buf \o "\n")>> ELSE <<>>)
                          \o (IF p.ok THEN <<TextItem(p.text)>> ELSE <<>>),
                buf |-> IF flush THEN "" ELSE buf,
                prev |-> IF flush THEN FALSE ELSE prev]
\* lines 594-664: what one turn of the transcript loop yields and how it
\* leaves chunk_buffer and prev_was_chunk
Transcript(sig, buf, prev) ==
    IF IsChunk(MsgType(sig))
       THEN [items |-> <<>>, buf |-> buf \o PyStr(Content(sig)), prev |-> TRUE]
       ELSE LET flush == prev /\ buf # ""
                p == Pretty(sig)
            IN [items |-> (IF flush THEN <<TextItem(buf \o "\n")>> ELSE <<>>)
                          \o <<TextItem(IF p.ok THEN p.text ELSE Repr(sig) \o "\n")>>,
                buf |-> IF flush THEN "" ELSE buf,
                prev |-> IF flush THEN FALSE ELSE prev]

-----------------------------------------------------------------------------
(* stream_task: the two runs of the team (lines 431-478 and 586-668).       *)

\* the raw signals the team produces in the bounded check
ChunkType == "ModelClientStreamingChunkEvent"
RunSignals ==
    { Sig(ChunkType, ChunkType, "AzureAgent", Str("A")),
      Sig(ChunkType, ChunkType, "AzureAgent", Str("B")),
      Sig(ChunkType, ChunkType, "GitHubAgent", Str("C")),
      Sig("TextMessage", "TextMessage", "AzureAgent", Str(" done\nok ")),
      Sig("ToolCallRequestEvent", "ToolCallRequestEvent", "AzureAgent",
          ListVal(<<Call("subscription", "[1]")>>)),
      Sig("ToolCallExecutionEvent", "ToolCallExecutionEvent", "AzureAgent",
          ListVal(<<Result("subscription", "[1, 2]")>>)),
      Sig("ToolCallRequestEvent", "ToolCallRequestEvent", "AzureAgent", IntVal(5)),
      Sig("UserInputRequestedEvent", "UserInputRequestedEvent", "HumanUser",
          Str("")) }

\* the user proxy of line 419 is built without an input function: having
\* signalled its request it reads the answer from the process's stdin
AsksInput(sig) == MsgType(sig) = "UserInputRequestedEvent"

\* str(e) of an exception raised by team.run_stream
RunError == "run failed"

\* lines 432-476: one update of the first run
TeamSignal1 ==
    /\ pc = "run1"
    /\ ~awaiting
    /\ nsig < SignalBudget
    /\ \E sig \in RunSignals :
         /\ out' = Append(out, JsonLine(Ndjson(sig)))
         /\ awaiting' = AsksInput(sig)
    /\ nsig' = nsig + 1
    /\ UNCHANGED <<pc, model_ok, params_list, connVars, benchVars, chunk_buffer,
                   prev_was_chunk, otherVars>>

\* input() returns: the suspended team goes on
StdinAnswer ==
    /\ pc \in {"run1", "run2"}
    /\ awaiting
    /\ awaiting' = FALSE
    /\ UNCHANGED <<pc, model_ok, params_list, connVars, benchVars, out, nsig,
                   chunk_buffer, prev_was_chunk, otherVars>>

\* the first run is exhausted: control falls through to line 480
TeamEnd1 ==
    /\ pc = "run1"
    /\ ~awaiting
    /\ pc' = "build2"
    /\ UNCHANGED <<model_ok, params_list, connVars, benchVars, streamVars,
                   otherVars>>

\* lines 477-478: the first run raises; the handler yields and falls through
TeamRaise1 ==
    /\ pc = "run1"
    /\ out' = Append(out, ErrorLine(RunError))
    /\ awaiting' = FALSE
    /\ pc' = "build2"
    /\ UNCHANGED <<model_ok, params_list, connVars, benchVars, nsig,
                   chunk_buffer, prev_was_chunk, otherVars>>

\* lines 480-584: the provider-bound actors are appended a second time and a
\* second team is built
BuildTeam2 ==
    /\ pc = "build2"
    /\ IF BuildOk
          THEN /\ agents' = agents \o ProviderAgents
               /\ teams' = teams + 1
               /\ pc' = "announce2"
          ELSE /\ pc' = "exit_raise"
               /\ UNCHANGED <<agents, teams>>
    /\ UNCHANGED <<model_ok, params_list, connVars, workbenches, bench_indices,
                   streamVars, otherVars>>

\* lines 587-591
Announce2 ==
    /\ pc = "announce2"
    /\ out' = Append(out, TextItem("### Request\n- User: ping\n\n### Run\n"))
    /\ chunk_buffer' = ""
    /\ prev_was_chunk' = FALSE
    /\ pc' = "run2"
    /\ UNCHANGED <<model_ok, params_list, connVars, benchVars, nsig, awaiting,
                   otherVars>>

\* lines 593-664: one update of the second run
TeamSignal2 ==
    /\ pc = "run2"
    /\ ~awaiting
    /\ nsig < SignalBudget
    /\ \E sig \in RunSignals :
         LET t == Transcript(sig, chunk_buffer, prev_was_chunk) IN
         /\ out' = out \o t.items
         /\ chunk_buffer' = t.buf
         /\ prev_was_chunk' = t.prev
         /\ awaiting' = AsksInput(sig)
    /\ nsig' = nsig + 1
    /\ UNCHANGED <<pc, model_ok, params_list, connVars, benchVars, otherVars>>

\* lines 665-666: the second run is exhausted; the last flush
TeamEnd2 ==
    /\ pc = "run2"
    /\ ~awaiting
    /\ out' = IF prev_was_chunk /\ chunk_buffer # ""
                 THEN Append(out, TextItem(chunk_buffer \o "\n"))
                 ELSE out
    /\ pc' = "exit"
    /\ UNCHANGED <<model_ok, params_list, connVars, benchVars, nsig, awaiting,
                   chunk_buffer, prev_was_chunk, otherVars>>

\* lines 667-668: the second run raises
TeamRaise2 ==
    /\ pc = "run2"
    /\ out' = Append(out, TextItem("! Execution error: " \o RunError \o "\n"))
    /\ awaiting' = FALSE
    /\ pc' = "exit"
    /\ UNCHANGED <<model_ok, params_list, connVars, benchVars, nsig,
                   chunk_buffer, prev_was_chunk, otherVars>>

RECURSIVE Reverse(_)
Reverse(q) == IF q = <<>> THEN <<>> ELSE Append(Reverse(Tail(q)), Head(q))

\* line 204: leaving the async with block exits the entered contexts, last
\* entered first; the generator then returns, or raises the pending exception
ExitStack ==
    /\ pc \in {"exit", "exit_raise"}
    /\ released' = released \o Reverse(stack)
    /\ stack' = <<>>
    /\ pc' = IF pc = "exit" THEN "done" ELSE "raised"
    /\ UNCHANGED <<model_ok, params_list, i, step, tries, last_err, hist,
                   benchVars, streamVars, otherVars>>

-----------------------------------------------------------------------------
(* One call of stream_task.                                                *)

NoBenchIndices == [k \in {} |-> 0]

\* the tool manager and the /run connections, unused
InitExt ==
    /\ servers = <<>>
    /\ manager = <<>>
    /\ tlog = <<>>
    /\ runs = <<>>

InitOther ==
    /\ results = <<>>
    /\ sessions = [k \in {} |-> <<>>]
    /\ resp = <<>>
    /\ rin = <<>>
    /\ rout = <<>>
    /\ InitExt

InitCall ==
    /\ i = 0
    /\ step = "spawn"
    /\ tries = 0
    /\ last_err = NoErr
    /\ hist = <<>>
    /\ stack = <<>>
    /\ released = <<>>
    /\ workbenches = <<>>
    /\ bench_indices = NoBenchIndices
    /\ agents = <<>>
    /\ teams = 0
    /\ out = <<>>
    /\ nsig = 0
    /\ awaiting = FALSE
    /\ chunk_buffer = ""
    /\ prev_was_chunk = FALSE

Init ==
    /\ pc = "start"
    /\ model_ok \in BOOLEAN
    /\ params_list \in {create_mcp_server_params(e) : e \in Envs}
    /\ InitCall
    /\ InitOther

Next ==
    \/ Start
    \/ Spawn
    \/ Initialize
    \/ ListTools
    \/ Backoff
    \/ BuildTeam
    \/ Announce
    \/ TeamSignal1
    \/ StdinAnswer
    \/ TeamEnd1
    \/ TeamRaise1
    \/ BuildTeam2
    \/ Announce2
    \/ TeamSignal2
    \/ TeamEnd2
    \/ TeamRaise2
    \/ ExitStack

Spec == Init /\ [][Next]_vars

-----------------------------------------------------------------------------
(* check_mcp_servers (lines 671-722) and GET /mcp-check (main.py 51-57).    *)

\* line 679
ChkIsAzure(params) == Contains(ArgsStr(params), "@azure/mcp")
\* lines 689-690 and 703-704
ChkStartupTimeout(is_azure) == IF is_azure THEN 20 ELSE 10
ChkInitTimeout(is_azure) == IF is_azure THEN 15 ELSE 8
ChkAttempts(is_azure) == IF is_azure THEN 6 ELSE 3
ChkPerTryTimeout(is_azure) == IF is_azure THEN 45 ELSE 12

\* lines 681-685 with the status and the error the try block ends with
ResultEntry(params, status, error) ==
    [args |-> params.args, status |-> status, error |-> error]

ChkNextSpec ==
    /\ i' = i + 1
    /\ step' = "spawn"
    /\ tries' = 0
    /\ last_err' = NoErr

\* variant: a failed spec leaves no entry
ChkFailedLost(reason) ==
    /\ results' = results
    /\ ChkNextSpec

\* lines 718-721
ChkFailed(reason) ==
    /\ results' = Append(results,
                         ResultEntry(params_list[i + 1], "error", Str(reason)))
    /\ ChkNextSpec

\* lines 717 and 721
ChkOk ==
    /\ results' = Append(results, ResultEntry(params_list[i + 1], "ok", Null))
    /\ ChkNextSpec

InCheck(s) == pc = "check" /\ i < Len(params_list) /\ step = s

chkFrame == <<pc, model_ok, params_list, released, benchVars, streamVars,
              sessions, resp, rin, rout, extVars>>

\* lines 687-694
ChkSpawn ==
    /\ InCheck("spawn")
    /\ \E b \in StepBehaviours :
         LET r == WaitFor(b, ChkStartupTimeout(ChkIsAzure(params_list[i + 1]))) IN
         /\ hist' = Append(hist, NewHist(r))
         /\ IF r = "ok"
               THEN /\ stack' = Append(stack, i)
                    /\ step' = "init"
                    /\ UNCHANGED <<i, tries, last_err, results>>
               ELSE /\ ChkFailed(IF r = "timeout" THEN "startup timeout"
                                                  ELSE ErrText(r, "spawn"))
                    /\ stack' = stack
    /\ UNCHANGED chkFrame

\* lines 696-700
ChkInitialize ==
    /\ InCheck("init")
    /\ \E b \in StepBehaviours :
         LET r == WaitFor(b, ChkInitTimeout(ChkIsAzure(params_list[i + 1]))) IN
         /\ hist' = [hist EXCEPT ![i + 1].init = r]
         /\ IF r = "ok"
               THEN /\ step' = "list"
                    /\ UNCHANGED <<i, tries, last_err, results>>
               ELSE ChkFailed(IF r = "timeout" THEN "initialize timeout"
                                               ELSE ErrText(r, "initialize"))
    /\ UNCHANGED <<chkFrame, stack>>

\* lines 706-712: one attempt of the retry loop
ChkListTools ==
    /\ InCheck("list")
    /\ \E b \in StepBehaviours :
         LET r == WaitFor(b, ChkPerTryTimeout(ChkIsAzure(params_list[i + 1]))) IN
         IF r = "ok"
            THEN /\ hist' = [hist EXCEPT ![i + 1].listed = TRUE]
                 /\ ChkOk
            ELSE /\ hist' = [hist EXCEPT ![i + 1].fails = @ + 1,
                                         ![i + 1].last = r]
                 /\ last_err' = Err(ErrText(r, "list_tools"))
                 /\ tries' = tries + 1
                 /\ step' = "sleep"
                 /\ UNCHANGED <<i, results>>
    /\ UNCHANGED <<chkFrame, stack>>

\* lines 713-715
ChkBackoff ==
    /\ InCheck("sleep")
    /\ hist' = [hist EXCEPT ![i + 1].sleeps = @ + 1]
    /\ IF tries < ChkAttempts(ChkIsAzure(params_list[i + 1]))
          THEN /\ step' = "list"
               /\ UNCHANGED <<i, tries, last_err, results>>
          ELSE ChkFailed("list_tools failed after retries: " \o last_err.msg)
    /\ UNCHANGED <<chkFrame, stack>>

\* lines 675 and 722, main.py 54-55: the stack exits the entered contexts and
\* the endpoint answers with the list
ChkReturn ==
    /\ pc = "check"
    /\ i = Len(params_list)
    /\ released' = released \o Reverse(stack)
    /\ stack' = <<>>
    /\ resp' = Append(resp, [code |-> 200, results |-> results])
    /\ pc' = "checked"
    /\ UNCHANGED <<model_ok, params_list, i, step, tries, last_err, hist,
                   benchVars, streamVars, results, sessions, rin, rout,
                   extVars>>

InitCheck ==
    /\ pc = "check"
    /\ model_ok = TRUE
    /\ params_list \in {create_mcp_server_params(e) : e \in Envs}
    /\ InitCall
    /\ InitOther

NextCheck ==
    \/ ChkSpawn
    \/ ChkInitialize
    \/ ChkListTools
    \/ ChkBackoff
    \/ ChkReturn

SpecCheck == InitCheck /\ [][NextCheck]_vars

-----------------------------------------------------------------------------
(* POST /input (main.py 60-65).  submit_user_input and the registry it      *)
(* looks the session up in are imported by main.py from autogen_agent_v2,   *)
(* which does not define them; they are modelled from the specification     *)
(* (section 4.2).                                                           *)

SessionIds == {"s1", "s2", "s3"}
InputTexts == {"yes", "no"}
\* texts waiting in one inbound queue
MaxInbound == 2
\* requests answered by POST /input
MaxRequests == 3

\* submitInput: absent -> NotFound; present -> push the text, succeed
submit_user_input(reg, session, text) ==
    IF session \in DOMAIN reg
       THEN [ok |-> TRUE, reg |-> [reg EXCEPT ![session] = Append(@, text)]]
       ELSE [ok |-> FALSE, reg |-> reg]

\* variant: the endpoint ignores what submit_user_input returned
InputResponseAlwaysOk(ok) == [code |-> 200, body |-> "ok"]

\* main.py 63-65: the answer of the endpoint
InputResponse(ok) ==
    IF ok THEN [code |-> 200, body |-> "ok"]
          ELSE [code |-> 404, body |-> "session not found"]

\* main.py 60-65
InputToSession(session, text) ==
    LET r == submit_user_input(sessions, session, text) IN
    /\ pc = "serve"
    /\ Len(resp) < MaxRequests
    /\ session \in DOMAIN sessions => Len(sessions[session]) < MaxInbound
    /\ sessions' = r.reg
    /\ resp' = Append(resp, [session |-> session, text |-> text]
                                @@ InputResponse(r.ok))
    /\ UNCHANGED <<pc, model_ok, params_list, connVars, benchVars, streamVars,
                   results, rin, rout, extVars>>

PostInput == \E session \in SessionIds, text \in InputTexts :
                 InputToSession(session, text)

\* startTask, step 1: a new session is registered with an empty inbound queue
RegisterSession ==
    /\ pc = "serve"
    /\ \E session \in SessionIds \ DOMAIN sessions :
         sessions' = [k \in DOMAIN sessions \cup {session} |->
                         IF k = session THEN <<>> ELSE sessions[k]]
    /\ UNCHANGED <<pc, model_ok, params_list, connVars, benchVars, streamVars,
                   results, resp, rin, rout, extVars>>

\* the task of a session takes the next answer from its inbound queue
TakeInput ==
    /\ pc = "serve"
    /\ \E session \in DOMAIN sessions :
         /\ sessions[session] # <<>>
         /\ sessions' = [sessions EXCEPT ![session] = Tail(@)]
    /\ UNCHANGED <<pc, model_ok, params_list, connVars, benchVars, streamVars,
                   results, resp, rin, rout, extVars>>

\* session lifecycle: the session is removed once its stream has ended
RemoveSession ==
    /\ pc = "serve"
    /\ \E session \in DOMAIN sessions :
         sessions' = [k \in DOMAIN sessions \ {session} |-> sessions[k]]
    /\ UNCHANGED <<pc, model_ok, params_list, connVars, benchVars, streamVars,
                   results, resp, rin, rout, extVars>>

InitInput ==
    /\ pc = "serve"
    /\ model_ok = TRUE
    /\ params_list = <<>>
    /\ InitCall
    /\ InitOther

NextInput ==
    \/ PostInput
    \/ RegisterSession
    \/ TakeInput
    \/ RemoveSession

SpecInput == InitInput /\ [][NextInput]_vars

-----------------------------------------------------------------------------
(* The two renderings of one signal, on texts of every shape and length.    *)

\* the characters of tool outputs: digits, brackets, comma, blank, a letter
TextAlphabet == {"1", "2", "[", "]", ",", " ", "x"}
\* every output text up to this length is rendered
MaxTextLen == 3
\* lengths this far on both sides of a truncation budget are rendered
Slack == 2

RECURSIVE TextsUpTo(_)
TextsUpTo(n) ==
    IF n = 0 THEN {""}
    ELSE LET shorter == TextsUpTo(n - 1) IN
         shorter \cup {t \o c : t \in shorter, c \in TextAlphabet}

\* s repeated 2^k times
RECURSIVE Doubled(_, _)
Doubled(s, k) == IF k = 0 THEN s ELSE LET h == Doubled(s, k - 1) IN h \o h

\* a text of n characters that is no JSON
LongText(n) == SubSeq(Doubled("x[1, 2] y", 8), 1, n)

\* a JSON text "[[1,...,1],...,[1,...,1],1,1,d]" whose indented form has n
\* characters: 10 arrays of 20 ones, two ones and a number of n - 1496 digits
Ones(sep, n) == Join(sep, [k \in 1..n |-> "1"])
LongJson(n) ==
    "[" \o Join(",", [k \in 1..10 |-> "[" \o Ones(",", 20) \o "]"])
        \o ",1,1," \o Ones("", n - 1496) \o "]"

\* a JSON text of 1561 characters: arrays of five, nested four deep
RECURSIVE Nested(_)
Nested(depth) ==
    IF depth = 0 THEN "1"
    ELSE LET inner == Nested(depth - 1) IN
         "[" \o inner \o "," \o inner \o "," \o inner \o "," \o inner
             \o "," \o inner \o "]"
BigJson == Nested(4)

Window(budget) == (budget - Slack)..(budget + Slack)

OutputTexts ==
    TextsUpTo(MaxTextLen)
        \cup {"[1, 2]", "[[1],[]]", "[1,,2]", "[1 2]", "[[1], 2 ]"}
        \cup {LongText(n) : n \in Window(OutBudget)}
        \cup {LongJson(n) : n \in Window(OutBudget)}
        \cup {BigJson}

ArgumentTexts ==
    {LongText(n) : n \in 0..MaxTextLen} \cup {LongText(n) : n \in Window(ArgsBudget)}

ResultSignal(entries) ==
    Sig("ToolCallExecutionEvent", "ToolCallExecutionEvent", "AzureAgent",
        ListVal(entries))
CallSignal(entries) ==
    Sig("ToolCallRequestEvent", "ToolCallRequestEvent", "AzureAgent",
        ListVal(entries))

RenderInputs ==
    {ResultSignal(<<Result("storage", t)>>) : t \in OutputTexts}
        \cup {ResultSignal(<<Result("storage", "[1]"), Result("group", t)>>) :
                 t \in {"x", "[2, 1]", LongText(OutBudget + 1)}}
        \cup {ResultSignal(<<Entry(Str("storage"), NoneVal, NoneVal)>>)}
        \cup {CallSignal(<<Call("storage", t)>>) : t \in ArgumentTexts}
        \cup {CallSignal(<<Call("storage", "{}"), Call("group", t)>>) :
                 t \in {LongText(ArgsBudget + 1)}}
        \cup {CallSignal(<<Entry(Str("storage"), NoneVal, NoneVal)>>)}

renderFrame == <<pc, model_ok, params_list, connVars, benchVars, streamVars,
                 results, sessions, resp, rin, extVars>>

\* lines 433-476 applied to the signal
RenderStructured ==
    /\ pc = "render"
    /\ rout' = [mode |-> "structured", event |-> Ndjson(rin)]
    /\ UNCHANGED renderFrame

\* lines 594-664 applied to the signal, the chunk buffer being empty
RenderTranscript ==
    /\ pc = "render"
    /\ rout' = [mode |-> "transcript",
                items |-> Transcript(rin, "", FALSE).items]
    /\ UNCHANGED renderFrame

InitRender ==
    /\ pc = "render"
    /\ model_ok = TRUE
    /\ params_list = <<>>
    /\ InitCall
    /\ results = <<>>
    /\ sessions = [k \in {} |-> <<>>]
    /\ resp = <<>>
    /\ rin \in RenderInputs
    /\ rout = [mode |-> "none"]
    /\ InitExt

NextRender ==
    \/ RenderStructured
    \/ RenderTranscript

SpecRender == InitRender /\ [][NextRender]_vars

-----------------------------------------------------------------------------
(* The connect of stream_task (lines 206-235) and the check of              *)
(* check_mcp_servers (lines 686-717) run against one and the same provider. *)

\* a provider: what its spawn and its initialization do, how many listing
\* attempts fail before the first one succeeds, and how long the successful
\* attempt takes
Providers ==
    [spawn : StepBehaviours, init : StepBehaviours,
     failing : 0..Attempts(TRUE), dur : Durations]

\* the retry loop: a success is reached within the attempts made, and in time
Listed(p, attempts, per_try_timeout) ==
    p.failing < attempts /\ p.dur <= per_try_timeout

\* lines 206-236: the handle reaches workbenches.append
StreamConnects(params, p) ==
    LET az == IsAzureArgs(params) IN
    /\ WaitFor(p.spawn, StartupTimeout) = "ok"
    /\ WaitFor(p.init, InitTimeout) = "ok"
    /\ Listed(p, Attempts(az), PerTryTimeout(az))

\* lines 686-717: the entry gets status ok
CheckReportsOk(params, p) ==
    LET az == ChkIsAzure(params) IN
    /\ WaitFor(p.spawn, ChkStartupTimeout(az)) = "ok"
    /\ WaitFor(p.init, ChkInitTimeout(az)) = "ok"
    /\ Listed(p, ChkAttempts(az), ChkPerTryTimeout(az))

AllParams ==
    UNION {{create_mcp_server_params(e)[k] :
               k \in 1..Len(create_mcp_server_params(e))} : e \in Envs}

compareFrame == <<pc, model_ok, params_list, connVars, benchVars, streamVars,
                  results, sessions, resp, rin, extVars>>

ConnectOnce ==
    /\ pc = "compare"
    /\ rout' = [mode |-> "stream",
                ready |-> StreamConnects(rin.params, rin.provider)]
    /\ UNCHANGED compareFrame

CheckOnce ==
    /\ pc = "compare"
    /\ rout' = [mode |-> "check",
                ok |-> CheckReportsOk(rin.params, rin.provider)]
    /\ UNCHANGED compareFrame

InitCompare ==
    /\ pc = "compare"
    /\ model_ok = TRUE
    /\ params_list = <<>>
    /\ InitCall
    /\ results = <<>>
    /\ sessions = [k \in {} |-> <<>>]
    /\ resp = <<>>
    /\ rin \in [params : AllParams, provider : Providers]
    /\ rout = [mode |-> "none"]
    /\ InitExt

NextCompare ==
    \/ ConnectOnce
    \/ CheckOnce

SpecCompare == InitCompare /\ [][NextCompare]_vars

-----------------------------------------------------------------------------
(* The two renderers applied to signals of every kind name and content.    *)

\* kind names: the chunk marker alone, with the name of a later rule, the
\* names of the three rules, two of them in one name, and an unknown kind
ClassKinds ==
    {"ModelClientStreamingChunkEvent", "TextMessageChunk", "TextMessage",
     "ToolCallRequestEvent", "ToolCallExecutionEvent",
     "TextMessageToolCallRequestEvent", "ToolCallSummaryMessage"}

ClassContents ==
    {Str("hi"), ListVal(<<Entry(Str("storage"), Str("{}"), Str("[1]"))>>),
     ListVal(<<>>), NoneVal, IntVal(5)}

\* updates with a type and a source, and updates with neither
ClassInputs ==
    {Sig(k, k, "AzureAgent", c) : k \in ClassKinds, c \in ClassContents}
        \cup {Sig("", k, "", c) : k \in ClassKinds, c \in ClassContents}

InitClassify ==
    /\ pc = "render"
    /\ model_ok = TRUE
    /\ params_list = <<>>
    /\ InitCall
    /\ results = <<>>
    /\ sessions = [k \in {} |-> <<>>]
    /\ resp = <<>>
    /\ rin \in ClassInputs
    /\ rout = [mode |-> "none"]
    /\ InitExt

SpecClassify == InitClassify /\ [][NextRender]_vars

-----------------------------------------------------------------------------
(* agent/github_mcp_server.py and _old/main.py: GitHubMCPServer and the     *)
(* DynamicToolManager that loads and cleans up the two tool servers.        *)
(* azure_mcp_server.py is not part of the sources; cleanup clears the same  *)
(* four fields of both servers (lines 238-241 and 256-259), so the Azure    *)
(* server has the fields and the initialize of GitHubMCPServer, and its     *)
(* close is any of the outcomes a call can have.  Time is in tenths of a    *)
(* second.                                                                  *)

ServerNames == {"azure", "github"}

\* github_mcp_server.py 44-49; proc is the subprocess of the stdio context:
\* "none", "running" or "released"; orphans counts the running subprocesses
\* whose context a later initialize has overwritten; closed tells that close
\* has run since the last initialize
NewServer ==
    [session |-> FALSE, stdio |-> FALSE, streams |-> FALSE, proc |-> "none",
     orphans |-> 0, closed |-> FALSE]

\* where initialize can raise: entering the stdio context (line 78), entering
\* the session (82), the handshake (83), loading the tools (88)
InitOutcomes == {"ok", "spawn", "enter", "handshake", "tools"}

\* github_mcp_server.py 66-92
initialize(srv, o) ==
    LET orphaned == srv.orphans + (IF srv.proc = "running" THEN 1 ELSE 0) IN
    IF o = "spawn"
       THEN [srv EXCEPT !.stdio = TRUE, !.proc = "none", !.orphans = orphaned,
                        !.closed = FALSE]
       ELSE [session |-> TRUE, stdio |-> TRUE, streams |-> TRUE,
             proc |-> "running", orphans |-> orphaned, closed |-> FALSE]

\* what an awaited close does: returns after dur, or raises
CloseKinds == {"RuntimeError", "CancelledError", "OSError"}
CloseBehaviours ==
    [kind : {"ok"}, dur : {0, 5, 15, 30}] \cup [kind : CloseKinds, dur : {0}]

\* the behaviours of a close that is awaited, one stand-in for one that is not
Awaited(called) ==
    IF called THEN CloseBehaviours ELSE {[kind |-> "ok", dur |-> 0]}

SessionCloseTimeout == 20
StdioCloseTimeout == 20
CleanupTimeout == 10

\* the timer of an enclosing wait_for: armed with the time left, or absent
NoTimer == [armed |-> FALSE, left |-> 0]
Timer(left) == [armed |-> TRUE, left |-> left]

\* asyncio.wait_for(step, timeout) under the enclosing timer: the enclosing
\* timer cancels the wait when it expires first
Wait(b, timeout, outer) ==
    LET natural == IF b.dur > timeout THEN timeout ELSE b.dur IN
    IF outer.armed /\ outer.left < natural
       THEN [outcome |-> "CancelledError", elapsed |-> outer.left, outer |-> NoTimer]
       ELSE [outcome |-> IF b.dur > timeout THEN "TimeoutError" ELSE b.kind,
             elapsed |-> natural,
             outer |-> IF outer.armed THEN Timer(outer.left - natural) ELSE outer]

\* the except clauses of lines 180-183 and 194-198 (234-245 of _old/main.py):
\* the three named classes, then Exception; CancelledError is no Exception
IsException(kind) == kind \in {"RuntimeError", "TimeoutError", "OSError"}
\* variant: the named clause leaves CancelledError out
HandlerNoCancel(kind) ==
    IF kind = "ok" THEN "none"
    ELSE IF kind \in {"TimeoutError", "RuntimeError"} THEN "named"
    ELSE IF IsException(kind) THEN "generic"
    ELSE "propagate"
Handler(kind) ==
    IF kind = "ok" THEN "none"
    ELSE IF kind \in {"TimeoutError", "CancelledError", "RuntimeError"} THEN "named"
    ELSE IF IsException(kind) THEN "generic"
    ELSE "propagate"

\* the warning a handler records
Warning(label, kind) ==
    IF Handler(kind) = "named" THEN <<label \o " " \o kind>>
    ELSE IF Handler(kind) = "generic" THEN <<label \o ": " \o kind>>
    ELSE <<>>

NoTeardown ==
    [closes |-> <<>>, waits |-> <<>>, warnings |-> <<>>, raised |-> "ok"]

\* github_mcp_server.py 169-208: the server after close, the underlying
\* closes awaited, the time each wait took, the warnings, and what close
\* raises ("ok": it returns)
close(srv, b1, b2, outer) ==
    LET w1 == Wait(b1, SessionCloseTimeout, outer)
        raised1 == srv.session /\ Handler(w1.outcome) = "propagate"
        outer2 == IF srv.session THEN w1.outer ELSE outer
        w2 == Wait(b2, StdioCloseTimeout, outer2)
        do2 == srv.stdio /\ ~raised1
        raised2 == do2 /\ Handler(w2.outcome) = "propagate"
    IN [srv |-> [srv EXCEPT
                   !.session = FALSE,
                   !.stdio = IF raised1 THEN @ ELSE FALSE,
                   !.streams = IF raised1 \/ raised2 THEN @ ELSE FALSE,
                   !.proc = IF do2 /\ @ = "running" THEN "released" ELSE @,
                   !.closed = TRUE],
        closes |-> (IF srv.session THEN <<"session">> ELSE <<>>)
                      \o (IF do2 THEN <<"stdio">> ELSE <<>>),
        waits |-> (IF srv.session THEN <<w1.elapsed>> ELSE <<>>)
                      \o (IF do2 THEN <<w2.elapsed>> ELSE <<>>),
        warnings |-> (IF srv.session THEN Warning("Session close", w1.outcome)
                                     ELSE <<>>)
                      \o (IF do2 THEN Warning("Stdio context", w2.outcome)
                                 ELSE <<>>),
        raised |-> IF raised1 THEN w1.outcome
                   ELSE IF raised2 THEN w2.outcome ELSE "ok",
        outer |-> IF do2 THEN w2.outer ELSE outer2]

\* _old/main.py 100-104 and 150-162: the manager after initialize_servers
NewManager(present) ==
    [present |-> present,
     active_categories |-> {},
     session_active |-> [n \in ServerNames |-> FALSE],
     cleaned |-> FALSE]

\* operations made on the manager and the servers in one run of the model
MaxToolOps == 4

toolFrame == <<pc, model_ok, params_list, connVars, benchVars, streamVars,
               results, sessions, resp, rin, rout, runs>>

Logged(op, r) ==
    [n |-> tlog.n + 1, op |-> op, closes |-> r.closes, waits |-> r.waits,
     warnings |-> r.warnings, raised |-> r.raised, sent |-> FALSE]

\* _old/main.py 164-187
load_category_tools(category, o) ==
    /\ IF /\ category \notin manager.active_categories
          /\ manager.present[category]
          /\ ~manager.session_active[category]
          THEN /\ servers' = [servers EXCEPT
                                 ![category] = initialize(@, o)]
               /\ manager' =
                      IF o = "ok"
                         THEN [manager EXCEPT
                                 !.session_active[category] = TRUE,
                                 !.active_categories = @ \cup {category},
                                 !.cleaned = FALSE]
                         ELSE [manager EXCEPT !.cleaned = FALSE]
          ELSE UNCHANGED <<servers, manager>>
    /\ tlog' = Logged("load", NoTeardown)

LoadCategoryTools ==
    /\ pc = "tools"
    /\ tlog.n < MaxToolOps
    /\ \E category \in ServerNames, o \in InitOutcomes :
         load_category_tools(category, o)
    /\ UNCHANGED toolFrame

\* a direct call of GitHubMCPServer.close (lines 169-208)
Close ==
    /\ pc = "tools"
    /\ tlog.n < MaxToolOps
    /\ manager.present["github"]
    /\ \E b1 \in Awaited(servers["github"].session),
          b2 \in Awaited(servers["github"].stdio) :
         LET r == close(servers["github"], b1, b2, NoTimer) IN
         /\ servers' = [servers EXCEPT !["github"] = r.srv]
         /\ tlog' = Logged("close", r)
    /\ UNCHANGED <<manager, toolFrame>>

\* what the session does with a request: it answers, or the call raises
CallOutcomes == {"ok", "McpError"}

\* github_mcp_server.py 127-167: the guard of line 137, then the request is
\* handed to the session (line 144) and its exception re-raised (165-167)
call_tool(srv, o) ==
    IF ~srv.session
       THEN [sent |-> FALSE, raised |-> "RuntimeError"]
       ELSE [sent |-> TRUE, raised |-> o]

CallTool ==
    /\ pc = "tools"
    /\ tlog.n < MaxToolOps
    /\ manager.present["github"]
    /\ \E o \in CallOutcomes :
         LET c == call_tool(servers["github"], o) IN
         tlog' = [Logged("call", [NoTeardown EXCEPT !.raised = c.raised])
                     EXCEPT !.sent = c.sent]
    /\ UNCHANGED <<servers, manager, toolFrame>>

\* the close of the Azure server awaited by cleanup: it returns in time with
\* the fields cleared, or does not return in time, or raises
AzureCloseOutcomes == {"ok", "TimeoutError"} \cup CloseKinds
azure_close(srv, a) ==
    IF a = "ok"
       THEN [srv EXCEPT !.session = FALSE, !.stdio = FALSE, !.streams = FALSE,
                        !.proc = IF @ = "running" THEN "released" ELSE @,
                        !.closed = TRUE]
       ELSE srv

\* _old/main.py 238-241 and 256-259
ForceCleanup(srv) ==
    [srv EXCEPT !.session = FALSE, !.stdio = FALSE, !.streams = FALSE]

\* _old/main.py 230-245 and 248-263: one server's part of cleanup, given the
\* server as close left it and what the awaited close raised
CleanupPart(label, active, srv, after, kind) ==
    IF ~active
       THEN [srv |-> srv, warnings |-> <<>>, raised |-> "ok"]
       ELSE [srv |-> IF Handler(kind) = "named" THEN ForceCleanup(after) ELSE after,
             warnings |-> Warning(label, kind),
             raised |-> IF Handler(kind) = "propagate" THEN kind ELSE "ok"]

\* variant: the session-active flags survive the reset
ResetStateKeepsFlags(m) == [m EXCEPT !.active_categories = {}]

\* _old/main.py 266-268
ResetState(m) ==
    [m EXCEPT !.session_active = [n \in ServerNames |-> FALSE],
              !.active_categories = {}]

\* _old/main.py 225-273
cleanup(a, b1, b2) ==
    LET az_on == manager.session_active["azure"] /\ manager.present["azure"]
        az == CleanupPart("Azure", az_on, servers["azure"],
                          azure_close(servers["azure"], a), a)
        gh_on == /\ az.raised = "ok"
                 /\ manager.session_active["github"]
                 /\ manager.present["github"]
        c == close(servers["github"], b1, b2, Timer(CleanupTimeout))
        gh == CleanupPart("GitHub", gh_on, servers["github"], c.srv, c.raised)
        raised == IF az.raised # "ok" THEN az.raised ELSE gh.raised
    IN
    /\ servers' = [n \in ServerNames |-> IF n = "azure" THEN az.srv ELSE gh.srv]
    /\ manager' =
           IF raised = "ok"
              THEN [ResetState(manager) EXCEPT !.cleaned = TRUE]
              ELSE [manager EXCEPT !.cleaned = TRUE]
    /\ tlog' = Logged("cleanup",
           [closes |-> (IF az_on THEN <<"azure">> ELSE <<>>)
                          \o (IF gh_on THEN c.closes ELSE <<>>),
            waits |-> IF gh_on THEN c.waits ELSE <<>>,
            warnings |-> az.warnings
                            \o (IF gh_on THEN c.warnings ELSE <<>>)
                            \o gh.warnings,
            raised |-> raised])

Cleanup ==
    /\ pc = "tools"
    /\ tlog.n < MaxToolOps
    /\ \E a \in IF manager.session_active["azure"]
                    THEN AzureCloseOutcomes ELSE {"ok"},
          b1 \in Awaited(manager.session_active["github"]
                            /\ servers["github"].session),
          b2 \in Awaited(manager.session_active["github"]
                            /\ servers["github"].stdio) :
         cleanup(a, b1, b2)
    /\ UNCHANGED toolFrame

InitTools ==
    /\ pc = "tools"
    /\ model_ok = TRUE
    /\ params_list = <<>>
    /\ InitCall
    /\ results = <<>>
    /\ sessions = [k \in {} |-> <<>>]
    /\ resp = <<>>
    /\ rin = <<>>
    /\ rout = <<>>
    /\ servers = [n \in ServerNames |-> NewServer]
    /\ \E present \in [ServerNames -> BOOLEAN] : manager = NewManager(present)
    /\ tlog = [n |-> 0, op |-> "none", closes |-> <<>>, waits |-> <<>>,
               warnings |-> <<>>, raised |-> "ok", sent |-> FALSE]
    /\ runs = <<>>

NextTools ==
    \/ LoadCategoryTools
    \/ Cleanup
    \/ Close
    \/ CallTool

SpecTools == InitTools /\ [][NextTools]_vars

-----------------------------------------------------------------------------
(* POST /run served to several callers at once (main.py lines 37-48): each  *)
(* response iterates its own call of stream_task, an async generator that   *)
(* runs only while its consumer asks for the next line.  No provider is     *)
(* configured in these runs.                                                *)

Prompts == {"ping", "pong"}

\* raw signals the teams of all the calls produce together
MaxServeSignals == 2

ServeSignals ==
    { Sig(ChunkType, ChunkType, "AzureAgent", Str("A")),
      Sig("UserInputRequestedEvent", "UserInputRequestedEvent", "HumanUser",
          Str("")) }

\* the frame of one call of stream_task and the response that iterates it:
\* asked, the response awaits the next line; yielded, the line the generator
\* is suspended on; out, every line yielded so far; body, the lines written
\* to the caller; open, the caller still reads
NewRun(prompt) ==
    [prompt |-> prompt, pc |-> "start", nsig |-> 0, awaiting |-> FALSE,
     chunk_buffer |-> "", prev_was_chunk |-> FALSE, pending |-> <<>>,
     asked |-> FALSE, yielded |-> <<>>, out |-> <<>>, body |-> <<>>,
     open |-> TRUE]

serveFrame == <<pc, model_ok, params_list, connVars, benchVars, streamVars,
                results, sessions, resp, rin, rout, servers, manager, tlog>>

\* main.py lines 42-48: the response of one POST /run
Run ==
    /\ pc = "serve"
    /\ \E p \in Prompts :
         /\ \A r \in 1..Len(runs) : runs[r].prompt # p
         /\ runs' = Append(runs, NewRun(p))
    /\ UNCHANGED serveFrame

Ended(g) == g.pc \in {"returned", "closed"}

\* main.py line 39: the response starts to iterate the generator
Iterate ==
    /\ pc = "serve"
    /\ \E r \in 1..Len(runs) :
         /\ runs[r].open
         /\ ~runs[r].asked
         /\ runs[r].pc = "start"
         /\ runs' = [runs EXCEPT ![r].asked = TRUE]
    /\ UNCHANGED serveFrame

\* the generator suspends on a yield
Yield(g, item, next) ==
    [g EXCEPT !.yielded = <<item>>, !.out = Append(@, item), !.pc = next]

RequestLine(prompt) ==
    JsonLine([type |-> "request", role |-> "user", text |-> prompt])
Header(prompt) == TextItem("### Request\n- User: " \o prompt \o "\n\n### Run\n")

\* the moves of the team under run_stream: a signal, the end, an exception
RECURSIVE Signalled(_)
Signalled(rs) == IF rs = <<>> THEN 0 ELSE Head(rs).nsig + Signalled(Tail(rs))

TeamMoves(g) ==
    {[kind |-> "signal", sig |-> s] :
        s \in IF Signalled(runs) < MaxServeSignals THEN ServeSignals ELSE {}}
      \cup {[kind |-> k, sig |-> Sig("", "", "", Str(""))] : k \in {"end", "raise"}}

ResetBuffer(g) == [g EXCEPT !.chunk_buffer = "", !.prev_was_chunk = FALSE]

\* stream_task from one yield to the next (lines 141-668), or to its return
Resumed(g, m) ==
    CASE g.pc = "start" ->
           IF model_ok
              THEN Yield(g, RequestLine(g.prompt), "starting")
              ELSE Yield(g, ErrorLine(
                      "Missing AZURE_OPENAI_ENDPOINT or AZURE_OPENAI_API_KEY"),
                      "after")
      [] g.pc = "starting" -> Yield(g, StatusLine("Starting..."), "run1")
      [] g.pc = "run1" ->
           IF m.kind = "signal"
              THEN Yield([g EXCEPT !.nsig = @ + 1,
                                   !.awaiting = AsksInput(m.sig)],
                         JsonLine(Ndjson(m.sig)), "run1")
           ELSE IF m.kind = "end"
              THEN Yield(ResetBuffer(g), Header(g.prompt), "run2")
           ELSE Yield(g, ErrorLine(RunError), "header")
      [] g.pc = "header" -> Yield(ResetBuffer(g), Header(g.prompt), "run2")
      [] g.pc = "run2" ->
           IF m.kind = "signal"
              THEN LET t == Transcript(m.sig, g.chunk_buffer, g.prev_was_chunk)
                       h == [g EXCEPT !.nsig = @ + 1,
                                      !.awaiting = AsksInput(m.sig),
                                      !.chunk_buffer = t.buf,
                                      !.prev_was_chunk = t.prev]
                   IN IF t.items = <<>> THEN h
                      ELSE IF Len(t.items) = 1 THEN Yield(h, t.items[1], "run2")
                      ELSE Yield([h EXCEPT !.pending = Tail(t.items)],
                                 t.items[1], "pretty")
           ELSE IF m.kind = "end"
              THEN IF g.prev_was_chunk /\ g.chunk_buffer # ""
                      THEN Yield(g, TextItem(g.chunk_buffer \o "\n"), "after")
                      ELSE [g EXCEPT !.pc = "returned", !.asked = FALSE]
           ELSE Yield(g, TextItem("! Execution error: " \o RunError \o "\n"),
                      "after")
      [] g.pc = "pretty" ->
           Yield([g EXCEPT !.pending = <<>>], g.pending[1], "run2")
      [] OTHER -> [g EXCEPT !.pc = "returned", !.asked = FALSE]

\* the generator runs only while its response waits for a line, and not
\* while its user proxy reads the standard input
CanAdvance(g) ==
    g.open /\ g.asked /\ g.yielded = <<>> /\ ~g.awaiting /\ ~Ended(g)

Advance ==
    /\ pc = "serve"
    /\ \E r \in 1..Len(runs) :
         /\ CanAdvance(runs[r])
         /\ \E m \in TeamMoves(runs[r]) :
              runs' = [runs EXCEPT ![r] = Resumed(runs[r], m)]
    /\ UNCHANGED serveFrame

\* variant: every line is written to the first response
RelayedToFirst(rs, r) ==
    [rs EXCEPT ![1].body = Append(@, rs[r].yielded[1]),
               ![r].yielded = <<>>]
\* main.py lines 39-40: the line goes to the response that iterates the
\* generator, and the loop asks for the next one
Relayed(rs, r) ==
    [rs EXCEPT ![r].body = Append(@, rs[r].yielded[1]),
               ![r].yielded = <<>>]

Relay ==
    /\ pc = "serve"
    /\ \E r \in 1..Len(runs) :
         /\ runs[r].open
         /\ runs[r].yielded # <<>>
         /\ runs' = Relayed(runs, r)
    /\ UNCHANGED serveFrame

\* a line arrives on the standard input of the process: one of the user
\* proxies reading it goes on (line 419, no input function)
StdinLine ==
    /\ pc = "serve"
    /\ \E r \in 1..Len(runs) :
         /\ runs[r].awaiting
         /\ runs' = [runs EXCEPT ![r].awaiting = FALSE]
    /\ UNCHANGED serveFrame

\* the caller closes the response before its end
Disconnect ==
    /\ pc = "serve"
    /\ \E r \in 1..Len(runs) :
         /\ runs[r].open
         /\ ~Ended(runs[r])
         /\ runs' = [runs EXCEPT ![r].open = FALSE]
    /\ UNCHANGED serveFrame

\* the abandoned generator is finalized: GeneratorExit at the yield it is
\* suspended on, the exit stack of line 204 unwinds
Aclose ==
    /\ pc = "serve"
    /\ \E r \in 1..Len(runs) :
         /\ ~runs[r].open
         /\ ~Ended(runs[r])
         /\ runs' = [runs EXCEPT ![r].pc = "closed", ![r].asked = FALSE,
                                 ![r].yielded = <<>>]
    /\ UNCHANGED serveFrame

InitServe ==
    /\ pc = "serve"
    /\ model_ok \in BOOLEAN
    /\ params_list = <<>>
    /\ InitCall
    /\ results = <<>>
    /\ sessions = [k \in {} |-> <<>>]
    /\ resp = <<>>
    /\ rin = <<>>
    /\ rout = <<>>
    /\ servers = <<>>
    /\ manager = <<>>
    /\ tlog = <<>>
    /\ runs = <<>>

NextServe ==
    \/ Run
    \/ Iterate
    \/ Advance
    \/ Relay
    \/ StdinLine
    \/ Disconnect
    \/ Aclose

SpecServe == InitServe /\ [][NextServe]_vars

-----------------------------------------------------------------------------
(* Claims.                                                                 *)

WireTypes == {"session", "status", "request", "message", "chunk", "tool_call",
              "tool_result", "input_request", "event", "error"}

HasType(item, type) == IsJsonLine(item) /\ item.json.type = type

\* the generator's normal return, the only clean end of the stream
EndOfStream == [end |-> TRUE]
\* what the consumer of stream_task has observed
Observed == out \o (IF pc = "done" THEN <<EndOfStream>> ELSE <<>>)

\* C1: the first event a consumer of stream_task observes is a `session`
\* event; nothing precedes it, also in a run that fails at once.
CX_C1 == out # <<>> => HasType(out[1], "session")

\* C2: every run ends its stream with one terminal marker, which is the last
\* thing observed, whether the run succeeds, meets an error or raises.
CX_C2 ==
    pc \in {"done", "raised"} =>
        /\ Observed # <<>>
        /\ Observed[Len(Observed)] = EndOfStream

\* C3: whatever specs failed to connect, in any position, once the connect
\* loop is over the actors can be built from the handles that succeeded and
\* the run goes on.
CX_C3 == (pc = "connect" /\ i = Len(params_list)) => BuildOk

\* C5: consecutive chunk signals of one agent reach the consumer of the
\* structured stream as one chunk event, never as one event per fragment.
CX_C5 ==
    \A k \in 1..(Len(out) - 1) :
        ~ /\ HasType(out[k], "chunk")
          /\ HasType(out[k + 1], "chunk")
          /\ out[k].json.agent = out[k + 1].json.agent

\* C7: a task that is blocked waiting for human input has emitted an
\* `input_request` event before it blocked.
CX_C7 == awaiting => \E k \in 1..Len(out) : HasType(out[k], "input_request")

\* C10: every item of the stream served by /run is one JSON line with a type
\* of the WireEvent set; the stream never holds transcript text.
CX_C10 ==
    \A k \in 1..Len(out) : IsJsonLine(out[k]) /\ out[k].json.type \in WireTypes

\* what hist says of a spec: all its steps succeeded
StepsSucceeded(h) == h.spawn = "ok" /\ h.init = "ok" /\ h.listed

\* C4: check_mcp_servers reports one result per spec, in configuration order:
\* "ok" for a spec whose spawn, initialization and listing succeeded, "error"
\* with the error text for any other, each spec by its own steps alone; the
\* endpoint answers with that list.
T_C4 ==
    /\ pc \in {"check", "checked"} =>
         /\ Len(results) = i
         /\ \A k \in 1..Len(results) :
              /\ results[k].args = params_list[k].args
              /\ results[k].status = (IF StepsSucceeded(hist[k]) THEN "ok" ELSE "error")
              /\ results[k].error.t = (IF StepsSucceeded(hist[k]) THEN "null" ELSE "str")
    /\ pc = "checked" =>
         /\ Len(results) = Len(params_list)
         /\ resp = <<[code |-> 200, results |-> results]>>

\* C4 witness: the check has returned, and a failed spec precedes an ok one
W_C4 ==
    /\ pc = "checked"
    /\ \E j, k \in 1..Len(results) :
         j < k /\ results[j].status = "error" /\ results[k].status = "ok"

-----------------------------------------------------------------------------
(* JSON by other means, to state what the renderings must carry: validity   *)
(* by shift-reduce recognition, the value by its compact form.              *)

\* s without its blanks
RECURSIVE Squeeze(_)
Squeeze(s) ==
    IF Len(s) = 0 THEN ""
    ELSE IF Len(s) = 1 THEN (IF IsSpace(s) THEN "" ELSE s)
    ELSE Squeeze(SubSeq(s, 1, Len(s) \div 2))
             \o Squeeze(SubSeq(s, Len(s) \div 2 + 1, Len(s)))

\* reduce the top of the stack: [] -> V, [V] -> V, V,V] -> V]
RECURSIVE Reduced(_)
Reduced(st) ==
    LET n == Len(st) IN
    IF n >= 2 /\ SubSeq(st, n - 1, n) = "[]"
       THEN Reduced(SubSeq(st, 1, n - 2) \o "V")
    ELSE IF n >= 3 /\ SubSeq(st, n - 2, n) = "[V]"
       THEN Reduced(SubSeq(st, 1, n - 3) \o "V")
    ELSE IF n >= 4 /\ SubSeq(st, n - 3, n) = "V,V]"
       THEN Reduced(SubSeq(st, 1, n - 4) \o "V]")
    ELSE st

\* shift the characters lo..hi of s: blanks are dropped, a digit starts a
\* number or goes on with the one the character before it belongs to
RECURSIVE Shifted(_, _, _, _)
Shifted(s, lo, hi, st) ==
    IF lo > hi THEN st
    ELSE IF lo = hi
       THEN LET c == Char(s, lo) IN
            IF IsSpace(c) THEN st
            ELSE IF IsDigit(c)
               THEN IF lo > 1 /\ IsDigit(Char(s, lo - 1)) THEN st ELSE st \o "V"
            ELSE Reduced(st \o c)
    ELSE LET mid == (lo + hi) \div 2
             left == Shifted(s, lo, mid, st)
         IN IF Len(left) >= 0 THEN Shifted(s, mid + 1, hi, left) ELSE left

JsonValid(s) == Shifted(s, 1, Len(s), "") = "V"

\* a JSON value written without blanks
RECURSIVE Compact(_)
Compact(v) ==
    IF v.t = "num" THEN ToString(v.v)
    ELSE "[" \o Join(",", [k \in 1..Len(v.v) |-> Compact(v.v[k])]) \o "]"

\* the raw output text of a result entry
RawOutput(e) == IF e.content.t = "none" THEN "" ELSE e.content.v

IsResultSignal(sig) == sig.type = "ToolCallExecutionEvent"
IsCallSignal(sig) == sig.type = "ToolCallRequestEvent"

\* C8: in the structured rendering every entry of a tool_result carries the
\* parsed JSON value when the raw output is valid JSON and the raw text
\* otherwise, whole in both cases, whatever its length.
T_C8 ==
    (pc = "render" /\ rout.mode = "structured" /\ IsResultSignal(rin)) =>
        /\ rout.event.type = "tool_result"
        /\ Len(rout.event.results) = Len(rin.content.v)
        /\ \A k \in 1..Len(rin.content.v) :
             LET raw == RawOutput(rin.content.v[k])
                 o == rout.event.results[k].output
             IN IF JsonValid(raw)
                   THEN o.t \in {"num", "arr"} /\ Compact(o) = Squeeze(raw)
                   ELSE o.t = "str" /\ o.v = raw

\* C8 witness: a structured tool_result with a parsed entry of more than 1500
\* characters of raw JSON
W_C8 ==
    /\ pc = "render"
    /\ rout.mode = "structured"
    /\ IsResultSignal(rin)
    /\ \E k \in 1..Len(rin.content.v) :
         /\ Len(RawOutput(rin.content.v[k])) > 1500
         /\ rout.event.results[k].output.t = "arr"

\* the text of the budget's first characters and the marker, or the text
CutTo(text, budget, marker) ==
    IF Len(text) > budget THEN SubSeq(text, 1, budget) \o marker ELSE text

ExpectedCall(e) ==
    "- AzureAgent > tool: " \o e.name.v \o " '"
        \o CutTo(IF e.arguments.t = "none" THEN "{}" ELSE e.arguments.v, 200, "~")
        \o "'"

ExpectedResult(e) ==
    "- AzureAgent > result: " \o e.name.v \o "\n'''json\n"
        \o CutTo(PrettyJson(RawOutput(e)), 1500, "\n~ (truncated)")
        \o "\n'''"

\* C9: in the transcript a tool_call's arguments text longer than 200
\* characters is its first 200 characters and the ellipsis, and a
\* tool_result's pretty-printed output longer than 1500 characters is its
\* first 1500 characters and the "(truncated)" marker; shorter texts are
\* rendered unchanged.
T_C9 ==
    (pc = "render" /\ rout.mode = "transcript") =>
        LET es == rin.content.v IN
        /\ IsCallSignal(rin) =>
             rout.items = <<TextItem(
                 Join("\n", [k \in 1..Len(es) |-> ExpectedCall(es[k])]) \o "\n")>>
        /\ IsResultSignal(rin) =>
             rout.items = <<TextItem(
                 Join("\n", [k \in 1..Len(es) |-> ExpectedResult(es[k])]) \o "\n")>>

\* C9 witness: a transcript block whose pretty-printed JSON was cut at 1500
W_C9 ==
    /\ pc = "render"
    /\ rout.mode = "transcript"
    /\ IsResultSignal(rin)
    /\ JsonValid(RawOutput(rin.content.v[1]))
    /\ Len(PrettyJson(RawOutput(rin.content.v[1]))) = 1501
    /\ Len(rout.items[1].text) > 1500

-----------------------------------------------------------------------------
(* Claims on teardown.                                                      *)

\* C11: when the run has ended and cleanup has returned, no handle whose
\* subprocess was started is left unreleased, also when its own connect
\* failed after the spawn.
CX_C11 ==
    (tlog.op = "cleanup" /\ tlog.raised = "ok") =>
        /\ servers["github"].proc # "running"
        /\ servers["github"].orphans = 0

\* C12: GitHubMCPServer.close and DynamicToolManager.cleanup return normally
\* whatever the underlying closes do (return, raise, are cancelled, exceed
\* their timeout); the wait for each underlying close is bounded by its
\* timeout, and the errors only appear as warnings, at most one per close.
T_C12 ==
    (pc = "tools" /\ tlog.op \in {"close", "cleanup"}) =>
        /\ tlog.raised = "ok"
        /\ \A k \in 1..Len(tlog.waits) : tlog.waits[k] <= 20
        /\ Len(tlog.warnings) <= Len(tlog.closes) + 1

\* C12 witness: a cleanup whose timer cut the session close after 1.0 s and
\* whose stdio close ran into its own timeout of 2.0 s, both recorded
W_C12 ==
    /\ pc = "tools"
    /\ tlog.op = "cleanup"
    /\ tlog.waits = <<10, 20>>
    /\ tlog.warnings = <<"Session close CancelledError", "Stdio context TimeoutError">>

\* C13: a close of a server that close has already run on, and a cleanup of
\* a manager that cleanup has already run on, awaits no underlying close and
\* leaves the state as it was; after close the session, the stdio context
\* and the streams are cleared, after cleanup the session-active flags are
\* false and the active categories empty.
T_C13 ==
    [][(pc = "tools" /\ tlog'.n = tlog.n + 1) =>
         /\ (tlog'.op = "close" /\ servers["github"].closed) =>
               tlog'.closes = <<>> /\ servers' = servers /\ manager' = manager
         /\ (tlog'.op = "cleanup" /\ manager.cleaned) =>
               tlog'.closes = <<>> /\ servers' = servers /\ manager' = manager
         /\ tlog'.op = "close" =>
               /\ ~servers'["github"].session
               /\ ~servers'["github"].stdio
               /\ ~servers'["github"].streams
         /\ tlog'.op = "cleanup" =>
               /\ \A n \in ServerNames : ~manager'.session_active[n]
               /\ manager'.active_categories = {}]_vars

\* C13 witness: a second cleanup in a row, after a first one that released the
\* subprocess of the GitHub server
W_C13 ==
    /\ pc = "tools"
    /\ tlog.op = "cleanup"
    /\ tlog.n >= 3
    /\ tlog.closes = <<>>
    /\ manager.cleaned
    /\ servers["github"].closed
    /\ servers["github"].proc = "released"

-----------------------------------------------------------------------------
(* Claims on the connect loop and on task errors.                           *)

IsStatus(item) == HasType(item, "status")

\* C14: while the handles are brought up, the stream holds exactly one
\* status event per spec already resolved, connected or failed.
CX_C14 == pc = "connect" => Len(SelectSeq(out, IsStatus)) = i

StartsWith(s, prefix) ==
    Len(s) >= Len(prefix) /\ SubSeq(s, 1, Len(prefix)) = prefix

RetryFailurePrefix == "Failed to connect MCP server: list_tools failed after retries: "
IsRetryFailure(item) ==
    IsStatus(item) /\ StartsWith(item.json.text, RetryFailurePrefix)

\* the attempt budget of spec k: 6 for the Azure server, 4 for any other
Budget(k) == IF IsAzureArgs(params_list[k]) THEN 6 ELSE 4

\* spec k reached the listing and all the attempts of its budget failed
Exhausted(k) ==
    /\ hist[k].spawn = "ok"
    /\ hist[k].init = "ok"
    /\ ~hist[k].listed
    /\ hist[k].fails = Budget(k)

\* the failed-after-retries statuses of the specs 1..k, in order
RECURSIVE ExpectedRetryFailures(_)
ExpectedRetryFailures(k) ==
    IF k = 0 THEN <<>>
    ELSE ExpectedRetryFailures(k - 1)
            \o (IF Exhausted(k)
                   THEN <<StatusLine(RetryFailurePrefix \o
                            (IF hist[k].last = "timeout" THEN "" ELSE "list_tools error"))>>
                   ELSE <<>>)

\* C15: the listing of one handle is attempted at most as often as the
\* spec's budget says and never again after a success; the handle fails
\* with the failed-after-retries reason exactly when every attempt of the
\* budget failed, and the reason carries the error of the last attempt.
T_C15 ==
    pc \notin {"start", "check", "checked"} =>
        /\ \A k \in 1..Len(hist) :
             /\ hist[k].fails + (IF hist[k].listed THEN 1 ELSE 0) <= Budget(k)
             /\ hist[k].listed => k <= i
             /\ (k <= i /\ hist[k].spawn = "ok" /\ hist[k].init = "ok") =>
                   (hist[k].listed \/ hist[k].fails = Budget(k))
        /\ SelectSeq(out, IsRetryFailure) = ExpectedRetryFailures(i)

\* C15 witness: one spec listed after failed attempts, a later one used up
\* its budget with an error as the last failure
W_C15 ==
    /\ pc = "connect"
    /\ \E j, k \in 1..i :
         /\ j < k
         /\ hist[j].listed /\ hist[j].fails >= 2
         /\ Exhausted(k) /\ hist[k].last = "error"

\* C16: an error event of a task that raised is the last item of the
\* stream: nothing is emitted after it.
CX_C16 ==
    \A k \in 1..Len(out) : HasType(out[k], "error") => k = Len(out)

\* a spec whose connect has been started and has not resolved yet: its
\* init or its listing is under way, or the loop sleeps between attempts
Unresolved == pc = "connect" /\ step \in {"init", "list", "sleep"}

\* C19: while the connect of one spec is unresolved and further specs are
\* configured, the connect of a later spec has been started already.
CX_C19 ==
    (Unresolved /\ i + 1 < Len(params_list)) => Len(hist) > i + 1

\* C20: when the transcript run is over, by exhaustion or by an error, the
\* fragments left in the buffer have been emitted as the last flush.
CX_C20 ==
    (pc = "exit" /\ teams = 2 /\ chunk_buffer # "") =>
        out[Len(out)] = TextItem(chunk_buffer \o "\n")

-----------------------------------------------------------------------------
(* Claims on concurrent runs.                                              *)

IsPrefix(p, q) == Len(p) <= Len(q) /\ SubSeq(q, 1, Len(p)) = p

CX_C18 ==
    (pc = "serve" /\ model_ok) =>
        \A r \in 1..Len(runs) :
            (~runs[r].open /\ runs[r].body # <<>> /\ Ended(runs[r])) =>
                runs[r].pc = "returned"

-----------------------------------------------------------------------------
(* Claims on the normalizer.                                               *)

EventTypes == {"chunk", "message", "tool_call", "tool_result", "event"}

\* C21: every signal of the structured run adds exactly one event line, of
\* one of the five event types, and the run goes on; a signal of the
\* transcript run is either a chunk absorbed into the buffer or adds exactly
\* one block, preceded by the flush of a non-empty buffer, and the run goes
\* on: also for a signal of an unknown kind and for one whose rendering
\* raises.
T_C21 ==
    [][/\ (pc = "run1" /\ nsig' = nsig + 1) =>
            /\ pc' = "run1"
            /\ Len(out') = Len(out) + 1
            /\ SubSeq(out', 1, Len(out)) = out
            /\ IsJsonLine(out'[Len(out')])
            /\ out'[Len(out')].json.type \in EventTypes
       /\ (pc = "run2" /\ nsig' = nsig + 1) =>
            /\ pc' = "run2"
            /\ SubSeq(out', 1, Len(out)) = out
            /\ \/ /\ Len(chunk_buffer') > Len(chunk_buffer)
                  /\ out' = out
               \/ /\ ~(prev_was_chunk /\ chunk_buffer # "")
                  /\ chunk_buffer' = chunk_buffer
                  /\ Len(out') = Len(out) + 1
               \/ /\ prev_was_chunk /\ chunk_buffer # ""
                  /\ chunk_buffer' = ""
                  /\ Len(out') = Len(out) + 2
                  /\ out'[Len(out) + 1] = TextItem(chunk_buffer \o "\n")
    ]_vars

IsErrorEvent(item) ==
    HasType(item, "event") /\ item.json.name = "error"
IsUnknownEvent(item) ==
    HasType(item, "event") /\ item.json.name = "UserInputRequestedEvent"

\* C21 witness: the structured run rendered a signal of an unknown kind and
\* one whose rendering raised, and the transcript run one whose rendering
\* raised, its block being the text of the signal
W_C21 ==
    /\ pc = "run2"
    /\ SelectSeq(out, IsErrorEvent) # <<>>
    /\ SelectSeq(out, IsUnknownEvent) # <<>>
    /\ out[Len(out)] = TextItem("<ToolCallRequestEvent>\n")

-----------------------------------------------------------------------------
(* Claims on the handles of one run.                                       *)

\* spec k (from 1) went through spawn, init and one successful listing
Ready(h) == h.spawn = "ok" /\ h.init = "ok" /\ h.listed

Timeouts == {StartupTimeout, InitTimeout, PerTryTimeout(TRUE), PerTryTimeout(FALSE)}

-----------------------------------------------------------------------------
(* Claims on the classification of signals.                                *)

\* the class the priority order of the rules gives a kind name
KindClass(name) ==
    IF Contains(name, "Chunk") THEN "chunk"
    ELSE IF Contains(name, "TextMessage") THEN "message"
    ELSE IF Contains(name, "ToolCallRequestEvent") THEN "tool_call"
    ELSE IF Contains(name, "ToolCallExecutionEvent") THEN "tool_result"
    ELSE "event"

KindName(sig) == IF sig.type = "" THEN sig.cls ELSE sig.type
AgentName(sig) == IF sig.source = "" THEN "system" ELSE sig.source

\* the content of a call request or call result cannot be iterated
Malformed(sig) ==
    /\ KindClass(KindName(sig)) \in {"tool_call", "tool_result"}
    /\ sig.content.t = "int" /\ sig.content.v # 0

\* the content of a call request or call result has no entry
NoEntry(sig) ==
    /\ KindClass(KindName(sig)) \in {"tool_call", "tool_result"}
    /\ sig.content \in {NoneVal, ListVal(<<>>), Str(""), IntVal(0)}

\* the opening of the transcript block of a class
BlockOpening(sig) ==
    LET class == KindClass(KindName(sig)) IN
    "- " \o AgentName(sig) \o
       (IF class = "tool_call" THEN " > tool: "
        ELSE IF class = "tool_result" THEN " > result: "
        ELSE ": ")

Fragments(agent) ==
    {PyStr(s.content) : s \in {t \in RunSignals : IsChunk(MsgType(t)) /\ Src(t) = agent}}

\* a flush made of a fragment of one agent and a fragment of the other
MixedFlushes ==
    {TextItem(x \o y \o "\n") :
        x \in Fragments("AzureAgent"), y \in Fragments("GitHubAgent")}
      \cup {TextItem(y \o x \o "\n") :
        x \in Fragments("AzureAgent"), y \in Fragments("GitHubAgent")}

\* C24: no flushed chunk joins a fragment of one agent with a fragment of
\* another agent.
CX_C24 == \A k \in 1..Len(out) : out[k] \notin MixedFlushes

\* C25: a signal the structured renderer gives as a tool_call or tool_result
\* record has a transcript block of the same class, opened as a tool call or
\* a tool result.
CX_C25 ==
    (/\ pc = "render"
     /\ rout.mode = "transcript"
     /\ Ndjson(rin).type \in {"tool_call", "tool_result"}) =>
        /\ Len(rout.items) = 1
        /\ StartsWith(rout.items[1].text,
              "- " \o AgentName(rin) \o
                 (IF Ndjson(rin).type = "tool_call" THEN " > tool: "
                                                    ELSE " > result: "))

-----------------------------------------------------------------------------
(* Claims on the diagnostic check and the backoff.                         *)

\* C26: the check reports ok for a spec exactly when the connect of
\* stream_task brings the same spec against the same provider to Ready.
CX_C26 ==
    (pc = "compare" /\ rout.mode = "check") =>
        (rout.ok <=> StreamConnects(rin.params, rin.provider))

\* C27: the listing of a handle with a budget of N attempts makes at most
\* N - 1 backoff waits.
CX_C27 == \A k \in 1..Len(hist) : hist[k].sleeps <= Budget(k) - 1

-----------------------------------------------------------------------------
(* Claims on the team and its run.                                         *)

\* C28: after the connect loop every kind recorded in bench_indices points
\* into workbenches, at the handle connected from that kind's spec.
CX_C28 ==
    (pc \notin {"start", "done"} /\ i = Len(params_list)) =>
        \A kind \in DOMAIN bench_indices :
            /\ bench_indices[kind] < Len(workbenches)
            /\ workbenches[bench_indices[kind] + 1] = bench_indices[kind]

\* the handle an actor was given is not the one of its provider's spec
WrongHandle ==
    \E n \in 1..Len(agents) :
        /\ agents[n].name = "AdoAgent"
        /\ agents[n].workbench # <<>>
        /\ KindOf(params_list[agents[n].workbench[1] + 1]) # "ado"

\* C29: in one call of stream_task no second team is built and no second
\* run of the task is started.
CX_C29 == teams <= 1 /\ pc # "run2"

-----------------------------------------------------------------------------
(* Claims on tool calls.                                                   *)

\* the last initialize of the GitHub server succeeded and the server has not
\* been closed since
GithubReady == manager.session_active["github"] /\ ~servers["github"].closed

\* C30: call_tool on a GitHub server that is not Ready raises and hands no
\* request to the session.
CX_C30 ==
    (pc = "tools" /\ tlog.op = "call" /\ ~GithubReady) =>
        (~tlog.sent /\ tlog.raised = "RuntimeError")

====
